---- MODULE Spec2Model ----
(***************************************************************************)
(* The RDataFrame usage of the notebooks: a dataframe is a graph of        *)
(* transformation nodes (Filter, Define, Redefine) on which actions        *)
(* (Count, Mean) are booked; each booking returns a result handle          *)
(* and GetValue on a handle runs the event loop "upon first access".       *)
(* The notebooks call the RDataFrame library; the operations below are     *)
(* modelled as the notebook cells use and describe them.                   *)
(***************************************************************************)
EXTENDS Integers, Sequences, FiniteSets, TLC

\* ---------------------------------------------------------------- bounds
NRows == 2          \* rows of the dataset
MaxNodes == 3       \* graph nodes, the dataframe itself included
MaxHandles == 2     \* booked actions

VARIABLES
    dataset,    \* the columns read from the file: row -> [a, b]
    nodes,      \* the computation graph: node 1 is the dataframe itself
    handles,    \* the result handles, in booking order: the node and action,
                \* the runs done when it was booked, the run that filled it
                \* (0: none yet) and its value
    nruns,      \* what GetNRuns returns
    out         \* the last GetValue: the handle read and the value returned

vars == <<dataset, nodes, handles, nruns, out>>

\* ------------------------------------------------------------ the inputs
\* Column values are the notebook's values in tenths ("a >= 0.2" is a >= 2).
\* The notebooks call Define with a new column name and Redefine with an
\* existing one; the calls below are the ones they make.
DataCols == {"a", "b"}

Vals == {1, 3}

\* One row with a >= 0.2, the others below it.
Datasets ==
    {d \in [1..NRows -> [a : Vals, b : {2}]] :
        d[1].a = 3 /\ \A r \in 2..NRows : d[r].a = 1}

NoExpr == [op |-> "none", c1 |-> "", c2 |-> "", k |-> 0]

\* Define("x", "42")
DefineCalls ==
    { <<"x", [op |-> "const", c1 |-> "", c2 |-> "", k |-> 42]>> }

\* Redefine("x", "x * 10")
RedefineCalls ==
    { <<"x", [op |-> "mul", c1 |-> "x", c2 |-> "", k |-> 10]>> }

\* Filter("a >= 0.2")
FilterCalls ==
    { [op |-> "ge", c1 |-> "a", c2 |-> "", k |-> 2] }

\* Count(), Mean("a"), Mean("x")
BookCalls == { <<"Count", "">>, <<"Mean", "a">>, <<"Mean", "x">> }

\* ------------------------------------------------------------- the graph
Root == [kind |-> "RDataFrame", parent |-> 0, name |-> "", expr |-> NoExpr]

Node(kind, parent, name, expr) ==
    [kind |-> kind, parent |-> parent, name |-> name, expr |-> expr]

\* The columns an expression reads.
ColsOf(e) == {e.c1, e.c2} \ {""}

\* The columns visible at node n (GetColumnNames).
RECURSIVE GetColumnNames(_)
GetColumnNames(n) ==
    IF nodes[n].kind = "RDataFrame" THEN DataCols
    ELSE IF nodes[n].kind = "Define"
         THEN GetColumnNames(nodes[n].parent) \cup {nodes[n].name}
         ELSE GetColumnNames(nodes[n].parent)

\* The value of column c for row r as node n sees it, and the value of an
\* expression over the columns of node n.
RECURSIVE ColumnValue(_, _, _)
Eval(e, n, r) ==
    CASE e.op = "const" -> e.k
      [] e.op = "mul"   -> ColumnValue(n, e.c1, r) * e.k
      [] e.op = "ge"    -> IF ColumnValue(n, e.c1, r) >= e.k THEN 1 ELSE 0

\* ColumnValue with Redefine nodes looked through: the first binding stays.
ColumnValueRedefineLost(n, c, r) ==
    IF nodes[n].kind = "RDataFrame" THEN dataset[r][c]
    ELSE IF nodes[n].kind = "Define" /\ nodes[n].name = c
         THEN Eval(nodes[n].expr, nodes[n].parent, r)
         ELSE ColumnValue(nodes[n].parent, c, r)

ColumnValue(n, c, r) ==
    IF nodes[n].kind = "RDataFrame" THEN dataset[r][c]
    ELSE IF nodes[n].kind \in {"Define", "Redefine"} /\ nodes[n].name = c
         THEN Eval(nodes[n].expr, nodes[n].parent, r)
         ELSE ColumnValue(nodes[n].parent, c, r)

\* Passes looking at the node's own Filter only, not at the Filters above it.
PassesOwnFilter(n, r) ==
    nodes[n].kind = "Filter" => Eval(nodes[n].expr, nodes[n].parent, r) = 1

\* Row r reaches node n: it passes every Filter from the dataframe to n.
RECURSIVE Passes(_, _)
Passes(n, r) ==
    IF nodes[n].kind = "RDataFrame" THEN TRUE
    ELSE /\ Passes(nodes[n].parent, r)
         /\ nodes[n].kind = "Filter" => Eval(nodes[n].expr, nodes[n].parent, r) = 1

\* --------------------------------------------------------- the event loop
\* A result: the entries seen and their sum (a mean is sum / n).
NoValue == [n |-> 0, sum |-> 0]

\* One entry of the loop for one booked action.
Fill(acc, h, r) ==
    IF ~Passes(h.node, r) THEN acc
    ELSE CASE h.act = "Count" -> [acc EXCEPT !.n = @ + 1]
           [] h.act = "Mean" ->
                 [acc EXCEPT !.n = @ + 1, !.sum = @ + ColumnValue(h.node, h.col, r)]

\* The loop over entries 1..r for one booked action.
RECURSIVE EventLoop(_, _)
EventLoop(h, r) ==
    IF r = 0 THEN NoValue ELSE Fill(EventLoop(h, r - 1), h, r)

\* Run filling one result only: the first booked action still without one.
RunFirstPending(hs, run) ==
    [i \in DOMAIN hs |->
        IF hs[i].run = 0 /\ \A j \in 1..(i - 1) : hs[j].run # 0
        THEN [hs[i] EXCEPT !.run = run, !.val = EventLoop(hs[i], NRows)]
        ELSE hs[i]]

\* Run filling only the results booked on the node of the first booked
\* action still without one.
RunOneNode(hs, run) ==
    [i \in DOMAIN hs |->
        IF /\ hs[i].run = 0
           /\ \E k \in 1..i : /\ hs[k].run = 0
                               /\ hs[k].node = hs[i].node
                               /\ \A j \in 1..(k - 1) : hs[j].run # 0
        THEN [hs[i] EXCEPT !.run = run, !.val = EventLoop(hs[i], NRows)]
        ELSE hs[i]]

\* One run: every booked action that has no result yet gets one.
Run(hs, run) ==
    [i \in DOMAIN hs |->
        IF hs[i].run = 0
        THEN [hs[i] EXCEPT !.run = run, !.val = EventLoop(hs[i], NRows)]
        ELSE hs[i]]

\* ------------------------------------------------------------ operations
Init ==
    /\ dataset \in Datasets
    /\ nodes = <<Root>>
    /\ handles = <<>>
    /\ nruns = 0
    /\ out = [h |-> 0, val |-> NoValue]

\* Transform running the event loop when the node is added.
TransformEager(node) ==
    /\ Len(nodes) < MaxNodes
    /\ nodes' = Append(nodes, node)
    /\ nruns' = nruns + 1
    /\ handles' = Run(handles, nruns + 1)
    /\ UNCHANGED <<dataset, out>>

Transform(node) ==
    /\ Len(nodes) < MaxNodes
    /\ nodes' = Append(nodes, node)
    /\ UNCHANGED <<dataset, handles, nruns, out>>

Filter(n, p) ==
    /\ ColsOf(p) \subseteq GetColumnNames(n)
    /\ Transform(Node("Filter", n, "", p))

Define(n, name, e) ==
    /\ name \notin GetColumnNames(n)
    /\ ColsOf(e) \subseteq GetColumnNames(n)
    /\ Transform(Node("Define", n, name, e))

Redefine(n, name, e) ==
    /\ name \in GetColumnNames(n)
    /\ ColsOf(e) \subseteq GetColumnNames(n)
    /\ Transform(Node("Redefine", n, name, e))

\* Book running the event loop at once instead of waiting for a read.
BookEager(n, act, col) ==
    /\ Len(handles) < MaxHandles
    /\ IF act = "Count" THEN col = "" ELSE col \in GetColumnNames(n)
    /\ nruns' = nruns + 1
    /\ handles' = Run(Append(handles,
            [node |-> n, act |-> act, col |-> col, booked |-> nruns,
             run |-> 0, val |-> NoValue]), nruns + 1)
    /\ UNCHANGED <<dataset, nodes, out>>

Book(n, act, col) ==
    /\ Len(handles) < MaxHandles
    /\ IF act = "Count" THEN col = "" ELSE col \in GetColumnNames(n)
    /\ handles' = Append(handles,
            [node |-> n, act |-> act, col |-> col, booked |-> nruns,
             run |-> 0, val |-> NoValue])
    /\ UNCHANGED <<dataset, nodes, nruns, out>>

\* GetValue running the event loop on every read.
GetValueRerun(h) ==
    /\ nruns' = nruns + 1
    /\ handles' = Run(handles, nruns + 1)
    /\ out' = [h |-> h, val |-> handles'[h].val]
    /\ UNCHANGED <<dataset, nodes>>

\* GetValue keeping a flag "has run" in place of the number of runs.
GetValueFlag(h) ==
    /\ IF handles[h].run = 0
       THEN /\ nruns' = 1
            /\ handles' = Run(handles, 1)
       ELSE UNCHANGED <<handles, nruns>>
    /\ out' = [h |-> h, val |-> handles'[h].val]
    /\ UNCHANGED <<dataset, nodes>>

GetValue(h) ==
    /\ IF handles[h].run = 0
       THEN /\ nruns' = nruns + 1
            /\ handles' = Run(handles, nruns + 1)
       ELSE UNCHANGED <<handles, nruns>>
    /\ out' = [h |-> h, val |-> handles'[h].val]
    /\ UNCHANGED <<dataset, nodes>>

Next ==
    \/ \E n \in DOMAIN nodes, p \in FilterCalls : Filter(n, p)
    \/ \E n \in DOMAIN nodes, d \in DefineCalls : Define(n, d[1], d[2])
    \/ \E n \in DOMAIN nodes, d \in RedefineCalls : Redefine(n, d[1], d[2])
    \/ \E n \in DOMAIN nodes, b \in BookCalls : Book(n, b[1], b[2])
    \/ \E h \in DOMAIN handles : GetValue(h)

Spec == Init /\ [][Next]_vars

\* --------------------------------------------------------------- claims
Resolved(i) == handles[i].run # 0

Pending == {i \in DOMAIN handles : ~Resolved(i)}

\* A call that only builds the graph: Filter, Define, Redefine or a booking
\* (each adds a node or a handle).
BuildCall ==
    /\ Len(nodes') > Len(nodes) \/ Len(handles') > Len(handles)
    /\ \/ \E n \in DOMAIN nodes, p \in FilterCalls : Filter(n, p)
       \/ \E n \in DOMAIN nodes, d \in DefineCalls : Define(n, d[1], d[2])
       \/ \E n \in DOMAIN nodes, d \in RedefineCalls : Redefine(n, d[1], d[2])
       \/ \E n \in DOMAIN nodes, b \in BookCalls : Book(n, b[1], b[2])

\* C1: with N >= 1 actions booked and no handle read yet, the first read of
\* any of them runs the event loop exactly once (GetNRuns goes from 0 to 1,
\* whatever N is) and after it all N handles hold their result.
C1_FirstReadRunsOnce ==
    [][\A h \in DOMAIN handles :
          (Pending = DOMAIN handles /\ GetValue(h))
              => /\ nruns = 0 /\ nruns' = 1
                 /\ DOMAIN handles' = DOMAIN handles
                 /\ \A i \in DOMAIN handles' : handles'[i].run = 1]_vars

C1_Witness ==
    /\ Len(handles) >= 2
    /\ nruns = 1
    /\ \A i \in DOMAIN handles : handles[i].run = 1 /\ handles[i].booked = 0

\* C2: a resolved handle never changes again, whatever happens later (later
\* runs included), and reading it returns its value without another run.
C2_ResolvedIsFinal ==
    [][\A h \in DOMAIN handles :
          Resolved(h)
              => /\ handles'[h] = handles[h]
                 /\ GetValue(h) => /\ nruns' = nruns
                                    /\ out'.val = handles[h].val]_vars

\* A handle of the first run read again after the second run.
C2_Witness ==
    /\ nruns = 2
    /\ out.h \in DOMAIN handles
    /\ handles[out.h].run = 1
    /\ out.val = handles[out.h].val
    /\ out.val.n > 0

\* C3: Filter, Define, Redefine and bookings run nothing: GetNRuns is
\* unchanged (no run yet stays no run yet, a completed run stays the last
\* one), no existing handle changes, nothing is returned, and the handle a
\* booking returns holds no value.
C3_BuildingIsLazy ==
    [][BuildCall
          => /\ nruns' = nruns
             /\ out' = out
             /\ \A i \in DOMAIN handles : handles'[i] = handles[i]
             /\ \A i \in DOMAIN handles' \ DOMAIN handles :
                    handles'[i].run = 0 /\ handles'[i].val = NoValue]_vars

C3_Witness ==
    /\ nruns = 0
    /\ Len(nodes) = 3
    /\ \E n \in DOMAIN nodes : nodes[n].kind = "Filter"
    /\ \E n \in DOMAIN nodes : nodes[n].kind = "Define"
    /\ Len(handles) >= 2
    /\ Pending = DOMAIN handles

RECURSIVE Upstream(_)
Upstream(n) ==
    IF nodes[n].kind = "RDataFrame" THEN {} ELSE {n} \cup Upstream(nodes[n].parent)

\* The Redefine nodes of column c from the dataframe down to node n.
Redefines(n, c) ==
    {m \in Upstream(n) : nodes[m].kind = "Redefine" /\ nodes[m].name = c}

RECURSIVE Pow10(_)
Pow10(k) == IF k = 0 THEN 1 ELSE 10 * Pow10(k - 1)

\* C6: after Define("x", "42"), Redefine("x", "x * 10") rebinds x for the
\* nodes below the Redefine node only, and from the old value: a Mean("x")
\* booked on a node is the mean of 42 * 10^k over the rows reaching it, k the
\* number of Redefine nodes of x above it (42 upstream, 420 downstream),
\* whether the Redefine was called before or after the booking.
C6_RedefineDownstreamOnly ==
    \A i \in DOMAIN handles :
        (Resolved(i) /\ handles[i].act = "Mean" /\ handles[i].col = "x")
            => handles[i].val.sum
                 = handles[i].val.n * 42 * Pow10(Cardinality(Redefines(handles[i].node, "x")))

\* One run, with the Redefine node in the graph, gives 42 on the Define node
\* and 420 on the Redefine node below it.
C6_Witness ==
    \E i, j \in DOMAIN handles :
        /\ handles[i].act = "Mean" /\ handles[i].col = "x"
        /\ handles[j].act = "Mean" /\ handles[j].col = "x"
        /\ nodes[handles[j].node].kind = "Redefine"
        /\ nodes[handles[j].node].parent = handles[i].node
        /\ handles[i].run = 1 /\ handles[j].run = 1
        /\ handles[i].val = [n |-> NRows, sum |-> 42 * NRows]
        /\ handles[j].val = [n |-> NRows, sum |-> 420 * NRows]

\* Two handles share an upstream transformation node.
SharePrefix(i, j) ==
    Upstream(handles[i].node) \cap Upstream(handles[j].node) # {}

\* C10 as stated: any two resolved handles that share an upstream
\* transformation node were resolved by the same run.
C10_AsStated ==
    \A i, j \in DOMAIN handles :
        (Resolved(i) /\ Resolved(j) /\ SharePrefix(i, j))
            => handles[i].run = handles[j].run

\* C10 amended: any two resolved handles that share an upstream
\* transformation node and were both booked before either was resolved (no
\* run between the two bookings) were resolved by the same run.
C10_SameRunWhenBookedTogether ==
    \A i, j \in DOMAIN handles :
        (/\ Resolved(i) /\ Resolved(j) /\ SharePrefix(i, j)
         /\ handles[i].booked = handles[j].booked)
            => handles[i].run = handles[j].run

C10_Witness ==
    \E i, j \in DOMAIN handles :
        /\ i # j
        /\ handles[i].node # handles[j].node
        /\ SharePrefix(i, j)
        /\ handles[i].booked = handles[j].booked
        /\ Resolved(i) /\ handles[i].run = handles[j].run

\* The rows for which every Filter predicate above node n holds, each
\* predicate ("a >= k") applied to the dataset row on its own.
Survivors(n) ==
    {r \in 1..NRows :
        \A m \in Upstream(n) :
            nodes[m].kind = "Filter" => dataset[r][nodes[m].expr.c1] >= nodes[m].expr.k}

RECURSIVE SumOf(_, _)
SumOf(c, rows) ==
    IF rows = {} THEN 0
    ELSE LET r == CHOOSE x \in rows : TRUE
         IN  dataset[r][c] + SumOf(c, rows \ {r})

\* C11: an action sees exactly the rows that pass every Filter above its
\* node: its entries are the rows for which the predicates hold applied
\* independently, Mean("a") is the mean of a over those rows (so at least
\* 0.2 below Filter("a >= 0.2") when a row survives), and an action on a
\* node with no Filter above it sees every row, whatever Filters sit on
\* other branches.
C11_FilteredRowsOnly ==
    \A i \in DOMAIN handles :
        Resolved(i) =>
            LET n == handles[i].node
                v == handles[i].val
            IN  /\ v.n = Cardinality(Survivors(n))
                /\ (handles[i].act = "Mean" /\ handles[i].col = "a")
                      => /\ v.sum = SumOf("a", Survivors(n))
                         /\ \A m \in Upstream(n) :
                               nodes[m].kind = "Filter" => v.sum >= nodes[m].expr.k * v.n
                /\ (\A m \in Upstream(n) : nodes[m].kind # "Filter") => v.n = NRows

\* One run: Count on the dataframe sees every row, Mean("a") on the Filter
\* node beside it sees the one row with a >= 0.2.
C11_Witness ==
    \E i, j \in DOMAIN handles :
        /\ handles[i].node = 1 /\ handles[i].act = "Count"
        /\ nodes[handles[j].node].kind = "Filter"
        /\ handles[j].act = "Mean" /\ handles[j].col = "a"
        /\ handles[i].run = 1 /\ handles[j].run = 1
        /\ handles[i].val.n = NRows
        /\ handles[j].val = [n |-> 1, sum |-> 3]

\* The engine as the caller sees it between two calls: no run yet, or the
\* last run complete. A run lasts for the GetValue call that starts it.
Engine == IF nruns = 0 THEN "Unbuilt" ELSE "Satisfied"

====
